---- MODULE Spec2Model ----
(***************************************************************************)
(* Model of src/main.py: the Price Comparison API (FastAPI over SQLite).  *)
(*                                                                         *)
(* State: the three tables of prices.db, the background tasks scheduled   *)
(* through BackgroundTasks, the response of the last request and a log of *)
(* the completed search requests.                                          *)
(*                                                                         *)
(* Every handler is an `async def` without an `await`: the event loop     *)
(* runs it to completion, so each handler is one atomic action.  A        *)
(* background task runs in the thread pool after its response was sent,   *)
(* so its steps interleave with the handlers.                              *)
(*                                                                         *)
(* Prices are integers (the REAL column in minor units), timestamps are   *)
(* integer ticks, DATE(t) is t \div TicksPerDay, and SQL NULL / Python    *)
(* None is the empty sequence <<>> while a present value v is <<v>>.      *)
(* The columns created_at (products, price_alerts) are not read by any    *)
(* statement of the program and are left out of the rows.                 *)
(***************************************************************************)
EXTENDS Integers, Sequences, FiniteSets, TLC

VARIABLES products, prices, price_alerts, tasks, response, searchLog, now

vars == <<products, prices, price_alerts, tasks, response, searchLog, now>>

tables == <<products, prices, price_alerts>>

(***************************************************************************)
(* Bounds of the model.                                                    *)
(***************************************************************************)
MaxSearches == 2
MaxAlerts == 2
MaxObs == 21
MaxDealProducts == 12
MaxDay == 8
TicksPerDay == 2
MaxTasks == 1

(***************************************************************************)
(* Program constants.                                                      *)
(***************************************************************************)
MinQueryLen == 2
PricesLimit == 20
DealsLimit == 10
TrendLimit == 7
TrendWindowDays == 7
AmazonPrice == 5999
FlipkartPrice == 5499

(***************************************************************************)
(* Inputs of the requests.                                                 *)
(***************************************************************************)
Queries == {"", "a", "ab", "cd"}
RequestIds == {1, 2, 7}
TargetPrices == {-1, 0, 100}
Emails == {"x"}
TieBreaks == {"asc", "desc"}

(***************************************************************************)
(* Generic helpers.                                                        *)
(***************************************************************************)
Range(s) == {s[i] : i \in DOMAIN s}

SetMin(S) == CHOOSE m \in S : \A x \in S : m <= x

SetMax(S) == CHOOSE m \in S : \A x \in S : m >= x

\* SUM(price) over a set of rows of prices.
RECURSIVE SumPrices(_)
SumPrices(S) ==
    IF S = {} THEN 0
    ELSE LET x == CHOOSE y \in S : TRUE IN x.price + SumPrices(S \ {x})

\* ORDER BY: the elements of DOMAIN key as a sequence, ascending by their
\* key <<k1, k2>> (k1 first, then k2); the keys are pairwise different.
SortedBy(key) ==
    LET S == DOMAIN key
        Less(x, y) == \/ key[x][1] < key[y][1]
                      \/ key[x][1] = key[y][1] /\ key[x][2] < key[y][2]
        rank == [x \in S |-> Cardinality({y \in S : Less(y, x)})]
    IN  [i \in 1..Cardinality(S) |-> CHOOSE x \in S : rank[x] = i - 1]

Take(s, n) == SubSeq(s, 1, IF Len(s) < n THEN Len(s) ELSE n)

Reverse(s) == [i \in 1..Len(s) |-> s[Len(s) + 1 - i]]

\* SQL leaves the order of rows with equal sort keys open; tb picks it.
TieKey(tb, x) == IF tb = "asc" THEN x.id ELSE 0 - x.id

TieBefore(tb, x, y) == TieKey(tb, x) < TieKey(tb, y)

\* INTEGER PRIMARY KEY without a value: one more than the largest rowid.
NextRowId(tbl) == IF tbl = <<>> THEN 1 ELSE SetMax({r.id : r \in Range(tbl)}) + 1

DateOf(t) == t \div TicksPerDay

(***************************************************************************)
(* The statements of the read-only endpoints, as SQLite executes them.     *)
(***************************************************************************)

\* WHERE product_id = ? over prices.
PricesOf(product_id) == {r \in Range(prices) : r.product_id = product_id}

\* An aggregate query with a single MIN(): the bare columns of the group
\* come from a row that holds the minimum (SQLite); tb picks among equals.
MinRow(rows, tb) ==
    LET lowest == SetMin({r.price : r \in rows})
        cands  == {r \in rows : r.price = lowest}
    IN  CHOOSE r \in cands : \A o \in cands : o = r \/ TieBefore(tb, r, o)

\* get_price_trend, lines 131-138: the rows of the product not older than
\* week_ago, grouped by DATE(timestamp); AVG(price) is kept as sum and n,
\* day is the group's key and ts the bare timestamp the ORDER BY reads
\* (that of some row of the group; tb picks it).  now is datetime.now();
\* the stored timestamps are compared with it as the query does.
TrendGroups(product_id, tb) ==
    LET week_ago == now - TrendWindowDays * TicksPerDay
        rows == {r \in PricesOf(product_id) : r.timestamp >= week_ago}
        OfDay(d) == {r \in rows : DateOf(r.timestamp) = d}
        Bare(d) == CHOOSE r \in OfDay(d) :
                       \A o \in OfDay(d) : o = r \/ TieBefore(tb, r, o)
    IN  {[day |-> d, sum |-> SumPrices(OfDay(d)), n |-> Cardinality(OfDay(d)),
          ts |-> Bare(d).timestamp] : d \in {DateOf(r.timestamp) : r \in rows}}

\* ORDER BY timestamp DESC of the trend query.
TrendKey(g) == <<0 - g.ts, 0>>

\* The rows the trend query returns: ORDER BY timestamp DESC LIMIT 7.
TrendRows(product_id, tb) ==
    Take(SortedBy([g \in TrendGroups(product_id, tb) |-> TrendKey(g)]), TrendLimit)

\* Mutant of TrendResult: the fetched rows returned without the reversal.
TrendResult_NotReversed(fetched) == fetched

\* The list get_price_trend returns: prices[::-1].
TrendResult(fetched) == Reverse(fetched)

get_price_trend(product_id, tb) ==
    LET fetched == TrendRows(product_id, tb)
    IN  TrendResult([i \in 1..Len(fetched) |->
            [day |-> fetched[i].day, sum |-> fetched[i].sum, n |-> fetched[i].n]])

\* Mutant of ProductById: the product is looked up through its prices
\* rows, so a product without observations is not found.
ProductById_ThroughPrices(product_id) ==
    LET found == {p \in Range(products) :
                     p.id = product_id /\ PricesOf(product_id) # {}}
    IN  IF found = {} THEN <<>> ELSE <<CHOOSE p \in found : TRUE>>

\* SELECT name FROM products WHERE id = ?, fetchone(): <<>> is None.
ProductById(product_id) ==
    LET found == {p \in Range(products) : p.id = product_id}
    IN  IF found = {} THEN <<>> ELSE <<CHOOSE p \in found : TRUE>>

\* ORDER BY timestamp DESC LIMIT 20 of get_product_prices.
RecentPrices(product_id, tb) ==
    Take(SortedBy([r \in PricesOf(product_id) |->
                      <<0 - r.timestamp, TieKey(tb, r)>>]), PricesLimit)

\* Line 273: min over the listed prices, 0 for an empty list.
LowestOfListed(listed) ==
    IF listed = <<>> THEN 0 ELSE SetMin({listed[i].price : i \in DOMAIN listed})

\* The response of GET /api/prices/{product_id}, lines 243-274.
PricesResponse(product_id, tb) ==
    LET product == ProductById(product_id)
        listed  == RecentPrices(product_id, tb)
    IN  IF product = <<>>
        THEN [op |-> "prices", arg |-> product_id, status |-> 404,
              body |-> [detail |-> "Product not found"]]
        ELSE [op |-> "prices", arg |-> product_id, status |-> 200,
              body |-> [product_id |-> product_id,
                        product_name |-> product[1].name,
                        prices |-> listed,
                        lowest_price |-> LowestOfListed(listed)]]

\* row[3] or 0 (line 231): None and 0.0 are both falsy.
OrZero(v) == IF v = <<>> \/ v = <<0>> THEN 0 ELSE v[1]

\* One row of the LEFT JOIN ... GROUP BY p.id of get_all_products, with
\* the bare pr.timestamp the ORDER BY reads (NULL sorts below every value).
ProductRow(p, tb) ==
    LET rows == PricesOf(p.id)
    IN  IF rows = {}
        THEN [id |-> p.id, name |-> p.name, category |-> p.category,
              min |-> <<>>, platform |-> <<>>, url |-> <<>>, ts |-> -1]
        ELSE LET m == MinRow(rows, tb)
             IN  [id |-> p.id, name |-> p.name, category |-> p.category,
                  min |-> <<m.price>>, platform |-> <<m.platform>>,
                  url |-> <<m.url>>, ts |-> m.timestamp]

\* ORDER BY pr.timestamp DESC of get_all_products.
ProductsKey(tb, x) == <<0 - x.ts, TieKey(tb, x)>>

\* The response of GET /api/products, lines 214-238.
ProductsResponse(tb) ==
    LET fetched == SortedBy([x \in {ProductRow(p, tb) : p \in Range(products)}
                                |-> ProductsKey(tb, x)])
    IN  [op |-> "products", arg |-> 0, status |-> 200,
         body |-> [count |-> Len(fetched),
                   products |-> [i \in 1..Len(fetched) |->
                       [id |-> fetched[i].id,
                        name |-> fetched[i].name,
                        category |-> fetched[i].category,
                        lowest_price |-> OrZero(fetched[i].min),
                        platform |-> IF fetched[i].platform = <<>> THEN "N/A"
                                     ELSE fetched[i].platform[1],
                        url |-> IF fetched[i].url = <<>> THEN "#"
                                ELSE fetched[i].url[1],
                        price_trend |-> get_price_trend(fetched[i].id, tb)]]]]

\* One row of the JOIN ... GROUP BY p.id of get_best_deals: only products
\* with a prices row have a group.
DealRows(tb) ==
    {[id |-> p.id, name |-> p.name, price |-> MinRow(PricesOf(p.id), tb).price,
      platform |-> MinRow(PricesOf(p.id), tb).platform]
        : p \in {q \in Range(products) : PricesOf(q.id) # {}}}

\* Mutant of DealsKey: ORDER BY pr.price DESC.
DealsKey_Descending(tb, x) == <<0 - x.price, TieKey(tb, x)>>

\* ORDER BY pr.price ASC of get_best_deals: pr.price is the bare column of
\* the MIN() row, that is the minimum itself.
DealsKey(tb, x) == <<x.price, TieKey(tb, x)>>

\* The response of GET /api/deals, lines 298-319.
DealsResponse(tb) ==
    LET deals == Take(SortedBy([x \in DealRows(tb) |-> DealsKey(tb, x)]),
                      DealsLimit)
    IN  [op |-> "deals", arg |-> 0, status |-> 200,
         body |-> [deals |-> deals, count |-> Len(deals)]]

(***************************************************************************)
(* GET /api/search and the background task it schedules.                   *)
(***************************************************************************)

\* Line 168-169: cursor.execute('SELECT id FROM products WHERE name ILIKE ?')
\* and fetchone().  SQLite has no ILIKE operator: preparing the statement
\* raises sqlite3.OperationalError (near "ILIKE": syntax error) whatever
\* the table holds, so no row is ever fetched.
ExecLookup(tbl, q) == [raised |-> TRUE, row |-> <<>>]

\* The closure scrape_all_platforms of lines 179-198 as it stands when the
\* handler returns: it captures q, product_id, and the handler's conn and
\* cursor, which line 202 has closed by then.
NewTask(q, product_id) ==
    [q |-> q, product_id |-> product_id, conn_open |-> FALSE,
     pc |-> "scheduled", amazon |-> "not_called", flipkart |-> "not_called",
     pending |-> <<>>]

\* search_product, lines 159-209.
search_product(q) ==
    /\ Len(searchLog) < MaxSearches
    /\ IF Len(q) < MinQueryLen
       THEN /\ response' = [op |-> "search", arg |-> q, status |-> 400,
                            body |-> [detail |-> "Query must be at least 2 characters"]]
            /\ searchLog' = Append(searchLog, [q |-> q, status |-> 400])
            /\ UNCHANGED <<products, tasks>>
       ELSE LET looked == ExecLookup(products, q)
            IN  IF looked.raised
                THEN /\ response' = [op |-> "search", arg |-> q, status |-> 500,
                                     body |-> [detail |-> "Internal Server Error"]]
                     /\ searchLog' = Append(searchLog, [q |-> q, status |-> 500])
                     /\ UNCHANGED <<products, tasks>>
                ELSE LET existing == looked.row
                         product_id == IF existing = <<>> THEN NextRowId(products)
                                       ELSE existing[1]
                     IN  /\ products' =
                               IF existing = <<>>
                               THEN Append(products, [id |-> product_id, name |-> q,
                                                      category |-> "General"])
                               ELSE products
                         /\ tasks' = Append(tasks, NewTask(q, product_id))
                         /\ response' = [op |-> "search", arg |-> q, status |-> 200,
                                         body |-> [product_id |-> product_id, query |-> q,
                                                   status |-> "in_progress"]]
                         /\ searchLog' = Append(searchLog, [q |-> q, status |-> 200])
    /\ UNCHANGED <<prices, price_alerts, now>>

\* scrape_amazon, lines 89-106: ok is whether requests.get and the parse
\* got through; any exception is swallowed and None returned.
scrape_amazon(q, ok) == IF ok THEN "dict" ELSE "None"

\* scrape_flipkart, lines 108-124.
scrape_flipkart(q, ok) == IF ok THEN "dict" ELSE "None"

\* cursor.execute and conn.commit raise sqlite3.ProgrammingError on a
\* closed connection.
Raises(t) == ~t.conn_open

\* The row of an INSERT INTO prices (product_id, platform, price, url).
Observation(t, platform, price) ==
    [product_id |-> t.product_id, platform |-> platform, price |-> price,
     url |-> <<platform, t.q>>]

\* Lines 182-188 of a scheduled task.
ScrapeAmazon(i, ok) ==
    /\ i \in DOMAIN tasks
    /\ tasks[i].pc = "scheduled"
    /\ LET t == tasks[i]
           amazon == scrape_amazon(t.q, ok)
       IN  tasks' = [tasks EXCEPT ![i] =
               IF amazon = "None"
               THEN [t EXCEPT !.amazon = amazon, !.pc = "flipkart"]
               ELSE IF Raises(t)
               THEN [t EXCEPT !.amazon = amazon, !.pc = "raised"]
               ELSE [t EXCEPT !.amazon = amazon, !.pc = "flipkart",
                              !.pending = Append(@, Observation(t, "Amazon", AmazonPrice))]]
    /\ UNCHANGED <<products, prices, price_alerts, response, searchLog, now>>

\* Lines 190-196.
ScrapeFlipkart(i, ok) ==
    /\ i \in DOMAIN tasks
    /\ tasks[i].pc = "flipkart"
    /\ LET t == tasks[i]
           flipkart == scrape_flipkart(t.q, ok)
       IN  tasks' = [tasks EXCEPT ![i] =
               IF flipkart = "None"
               THEN [t EXCEPT !.flipkart = flipkart, !.pc = "commit"]
               ELSE IF Raises(t)
               THEN [t EXCEPT !.flipkart = flipkart, !.pc = "raised"]
               ELSE [t EXCEPT !.flipkart = flipkart, !.pc = "commit",
                              !.pending = Append(@, Observation(t, "Flipkart", FlipkartPrice))]]
    /\ UNCHANGED <<products, prices, price_alerts, response, searchLog, now>>

\* The rows a commit makes durable: rowids and CURRENT_TIMESTAMP added.
Committed(tbl, pending) ==
    tbl \o [k \in 1..Len(pending) |->
              [id |-> NextRowId(tbl) + k - 1,
               product_id |-> pending[k].product_id,
               platform |-> pending[k].platform,
               price |-> pending[k].price,
               url |-> pending[k].url,
               timestamp |-> now]]

\* Line 198.
ScrapeCommit(i) ==
    /\ i \in DOMAIN tasks
    /\ tasks[i].pc = "commit"
    /\ LET t == tasks[i]
       IN  IF Raises(t)
           THEN /\ tasks' = [tasks EXCEPT ![i] = [t EXCEPT !.pc = "raised"]]
                /\ UNCHANGED prices
           ELSE /\ tasks' = [tasks EXCEPT ![i] = [t EXCEPT !.pc = "done", !.pending = <<>>]]
                /\ prices' = Committed(prices, t.pending)
    /\ UNCHANGED <<products, price_alerts, response, searchLog, now>>

(***************************************************************************)
(* The other handlers.                                                     *)
(***************************************************************************)

\* root, lines 146-156.
root ==
    /\ response' = [op |-> "root", arg |-> 0, status |-> 200,
                    body |-> [version |-> "1.0.0"]]
    /\ UNCHANGED <<products, prices, price_alerts, tasks, searchLog, now>>

\* get_all_products, lines 212-238.
get_all_products(tb) ==
    /\ response' = ProductsResponse(tb)
    /\ UNCHANGED <<products, prices, price_alerts, tasks, searchLog, now>>

\* get_product_prices, lines 241-274.
get_product_prices(product_id, tb) ==
    /\ response' = PricesResponse(product_id, tb)
    /\ UNCHANGED <<products, prices, price_alerts, tasks, searchLog, now>>

\* get_best_deals, lines 296-319.
get_best_deals(tb) ==
    /\ response' = DealsResponse(tb)
    /\ UNCHANGED <<products, prices, price_alerts, tasks, searchLog, now>>

\* create_price_alert, lines 277-293: the row is inserted as given.
create_price_alert(product_id, target_price, user_email) ==
    /\ Len(price_alerts) < MaxAlerts
    /\ price_alerts' = Append(price_alerts,
           [id |-> NextRowId(price_alerts), product_id |-> product_id,
            target_price |-> target_price, user_email |-> user_email])
    /\ response' = [op |-> "alerts", arg |-> product_id, status |-> 200,
                    body |-> [status |-> "success"]]
    /\ UNCHANGED <<products, prices, tasks, searchLog, now>>

NoResponse == [op |-> "none", arg |-> 0, status |-> 0, body |-> [none |-> TRUE]]

(***************************************************************************)
(* Spec: the service on a fresh prices.db (init_db, lines 28-67).          *)
(***************************************************************************)
Init ==
    /\ products = <<>>
    /\ prices = <<>>
    /\ price_alerts = <<>>
    /\ tasks = <<>>
    /\ response = NoResponse
    /\ searchLog = <<>>
    /\ now = 0

Next ==
    \/ root
    \/ \E q \in Queries : search_product(q)
    \/ \E tb \in TieBreaks : get_all_products(tb)
    \/ \E id \in RequestIds, tb \in TieBreaks : get_product_prices(id, tb)
    \/ \E tb \in TieBreaks : get_best_deals(tb)
    \/ \E id \in RequestIds, tp \in TargetPrices, em \in Emails :
           create_price_alert(id, tp, em)

Spec == Init /\ [][Next]_vars

(***************************************************************************)
(* SpecStore: the read-only endpoints and scrape_all_platforms applied to  *)
(* stored contents drawn from bounded families.  Every family keeps what   *)
(* the schema and the writers keep: rowids are unique, product names are   *)
(* unique, every prices row references a product.                          *)
(***************************************************************************)
ProductName(i) == "p" \o ToString(i)

ProductRec(i) == [id |-> i, name |-> ProductName(i), category |-> "General"]

PriceRec(id, product_id, platform, price, timestamp) ==
    [id |-> id, product_id |-> product_id, platform |-> platform,
     price |-> price, url |-> <<platform, ProductName(product_id)>>,
     timestamp |-> timestamp]

\* Product 1 with n observations, the first or the last inserted one the
\* cheapest (none for k = 0), newest first or last by rowid; product 2
\* without any.
StoreMany ==
    \E n \in 0..MaxObs, newestLast \in BOOLEAN :
      \E k \in {0, 1, n} :
        /\ products = <<ProductRec(1), ProductRec(2)>>
        /\ prices = [i \in 1..n |->
               PriceRec(i, 1, IF i % 2 = 1 THEN "Amazon" ELSE "Flipkart",
                        IF i = k THEN FlipkartPrice - 1 ELSE AmazonPrice,
                        IF newestLast THEN i - 1 ELSE n - i)]
        /\ tasks = <<>>
        /\ now = n

\* n products, product e (if any) without observations, the others with
\* one observation of price (a*i + b) % 4 and, for even i, a dearer one.
StoreDeals ==
    \E n \in 0..MaxDealProducts, a \in 0..2, b \in 0..1 :
      \E e \in 0..n :
        /\ products = [i \in 1..n |-> ProductRec(i)]
        /\ LET withObs == {i \in 1..n : i # e}
               rows == {PriceRec(2 * i - 1, i, "Amazon", (a * i + b) % 4, i % 3)
                           : i \in withObs}
                       \cup {PriceRec(2 * i, i, "Flipkart", ((a * i + b) % 4) + 2, 2)
                           : i \in {j \in withObs : j % 2 = 0}}
           IN  prices = SortedBy([r \in rows |-> <<r.id, 0>>])
        /\ tasks = <<>>
        /\ now = 3

\* Product 1 with two observations on every day of a set of days, the
\* rowids running against time; now is some tick of day MaxDay.
StoreTrend ==
    \E days \in SUBSET (0..MaxDay), tick \in 0..(TicksPerDay - 1) :
        /\ products = <<ProductRec(1)>>
        /\ LET slots == {<<d, h>> : d \in days, h \in 0..1}
               Stamp(sl) == sl[1] * TicksPerDay + sl[2]
               ordered == SortedBy([sl \in slots |-> <<0 - Stamp(sl), 0>>])
           IN  prices = [i \in 1..Len(ordered) |->
                   PriceRec(i, 1, IF ordered[i][2] = 0 THEN "Amazon" ELSE "Flipkart",
                            10 * ordered[i][1] + 3 * ordered[i][2], Stamp(ordered[i]))]
        /\ tasks = <<>>
        /\ now = MaxDay * TicksPerDay + tick

\* Up to two products and up to two observations with any field values.
StoreSmall ==
    \E np \in 0..2 :
      \E obs \in UNION {[1..m -> (1..np) \X {"Amazon", "Flipkart"}
                                   \X {0, FlipkartPrice, AmazonPrice} \X (0..1)]
                          : m \in 0..2} :
        /\ products = [i \in 1..np |-> ProductRec(i)]
        /\ prices = [i \in DOMAIN obs |->
               PriceRec(i, obs[i][1], obs[i][2], obs[i][3], obs[i][4])]
        /\ tasks = <<>>
        /\ now = 1

\* One or two products without observations and the background tasks that
\* search requests for them leave scheduled.
StoreTasks ==
    \E np \in 1..2, nt \in 1..MaxTasks :
      \E of \in [1..nt -> 1..np] :
        /\ products = [i \in 1..np |-> ProductRec(i)]
        /\ prices = <<>>
        /\ tasks = [j \in 1..nt |-> NewTask(ProductName(of[j]), of[j])]
        /\ now = 0

InitStore ==
    /\ price_alerts = <<>>
    /\ searchLog = <<>>
    /\ response = NoResponse
    /\ \/ StoreMany
       \/ StoreDeals
       \/ StoreTrend
       \/ StoreSmall
       \/ StoreTasks

NextStore ==
    \/ \E tb \in TieBreaks : get_all_products(tb)
    \/ \E id \in RequestIds, tb \in TieBreaks : get_product_prices(id, tb)
    \/ \E tb \in TieBreaks : get_best_deals(tb)
    \/ \E i \in 1..MaxTasks, ok \in BOOLEAN : ScrapeAmazon(i, ok)
    \/ \E i \in 1..MaxTasks, ok \in BOOLEAN : ScrapeFlipkart(i, ok)
    \/ \E i \in 1..MaxTasks : ScrapeCommit(i)

SpecStore == InitStore /\ [][NextStore]_vars

(***************************************************************************)
(* Properties.                                                             *)
(***************************************************************************)
ProductIds == {p.id : p \in Range(products)}

Ended(t) == t.pc \in {"done", "raised"}

Recorded(t, platform) ==
    \E r \in Range(prices) : r.product_id = t.product_id /\ r.platform = platform

TrueMinimum(product_id) == SetMin({r.price : r \in PricesOf(product_id)})

\* C1: once two search requests for the same new name (at least 2
\* characters, matching no product) have both run, the products table holds
\* exactly one row of that name.
C1_OneRowPerSearchedName ==
    \A q \in Queries :
        (Len(q) >= MinQueryLen
           /\ Cardinality({i \in DOMAIN searchLog : searchLog[i].q = q}) >= 2)
        => Cardinality({p \in Range(products) : p.name = q}) = 1

C3_LowestIsTrueMinimum ==
    /\ (response.op = "prices" /\ response.status = 200
          /\ PricesOf(response.arg) # {})
       => response.body.lowest_price = TrueMinimum(response.arg)
    /\ response.op = "products"
       => \A i \in DOMAIN response.body.products :
            LET e == response.body.products[i]
            IN  PricesOf(e.id) # {} => e.lowest_price = TrueMinimum(e.id)
    /\ response.op = "deals"
       => \A i \in DOMAIN response.body.deals :
            LET e == response.body.deals[i]
            IN  e.price = TrueMinimum(e.id)

\* C4: for a product without observations, the best price that
\* /api/products and /api/prices/{id} report is not the number 0.
C4_AbsentIsNotZero ==
    /\ (response.op = "prices" /\ response.status = 200
          /\ PricesOf(response.arg) = {})
       => response.body.lowest_price # 0
    /\ response.op = "products"
       => \A i \in DOMAIN response.body.products :
            LET e == response.body.products[i]
            IN  PricesOf(e.id) = {} => e.lowest_price # 0

\* C5: every stored alert has target_price > 0 and references an existing
\* product (requests that break either are refused and insert nothing).
C5_AlertsValidated ==
    \A i \in DOMAIN price_alerts :
        /\ price_alerts[i].target_price > 0
        /\ price_alerts[i].product_id \in ProductIds

\* C6: a GET /api/prices/{product_id} answers 404, without price rows,
\* exactly when no product has that id, answers 200 with the product's
\* data when one has, and leaves the three tables as they were.
C6_NotFoundIffNoProduct ==
    [][(response' # response /\ response'.op = "prices") =>
          /\ tables' = tables
          /\ response'.status = 404 <=> response'.arg \notin ProductIds
          /\ response'.status = 404 => "prices" \notin DOMAIN response'.body
          /\ response'.status # 404 =>
                /\ response'.status = 200
                /\ response'.body.product_id = response'.arg
                /\ \E p \in Range(products) :
                      /\ p.id = response'.arg
                      /\ p.name = response'.body.product_name
                /\ \A k \in DOMAIN response'.body.prices :
                      response'.body.prices[k] \in PricesOf(response'.arg)]_vars

C6_Witness ==
    /\ response.op = "prices"
    /\ response.status = 200
    /\ response.arg \in ProductIds
    /\ response.body.prices = <<>>

\* C7: the deals of GET /api/deals are sorted non-decreasing by price, at
\* most 10, name each product at most once and name no product without
\* observations.
C7_DealsSortedBounded ==
    response.op = "deals" =>
        LET d == response.body.deals
        IN  /\ Len(d) <= DealsLimit
            /\ \A i, j \in DOMAIN d : i < j => d[i].price <= d[j].price
            /\ \A i, j \in DOMAIN d : i # j => d[i].id # d[j].id
            /\ \A i \in DOMAIN d : d[i].id \in ProductIds /\ PricesOf(d[i].id) # {}

C7_Witness ==
    /\ response.op = "deals"
    /\ Len(response.body.deals) = DealsLimit
    /\ Cardinality({id \in ProductIds : PricesOf(id) # {}}) > DealsLimit
    /\ \E id \in ProductIds : PricesOf(id) = {}
    /\ response.body.deals[1].price < response.body.deals[DealsLimit].price

\* The observations of a product inside the trailing 7-day window and the
\* calendar days they fall on.
InWindow(product_id) ==
    {r \in PricesOf(product_id) :
        r.timestamp >= now - TrendWindowDays * TicksPerDay}

WindowDays(product_id) == {DateOf(r.timestamp) : r \in InWindow(product_id)}

MostRecent(days, k) == {d \in days : Cardinality({e \in days : e > d}) < k}

\* t has one entry for each day of `days`, each the mean of the day's
\* observations inside the window, at most 7 entries, oldest day first.
TrendIs(product_id, t, days) ==
    /\ Len(t) <= TrendLimit
    /\ Len(t) = Cardinality(days)
    /\ {t[i].day : i \in DOMAIN t} = days
    /\ \A i \in DOMAIN t :
          LET rows == {r \in InWindow(product_id) : DateOf(r.timestamp) = t[i].day}
          IN  /\ t[i].n > 0
              /\ t[i].sum * Cardinality(rows) = SumPrices(rows) * t[i].n
    /\ \A i, j \in DOMAIN t : i < j => t[i].day < t[j].day

\* C8 as stated: the trend has at most 7 entries, one per calendar day with
\* an observation inside the trailing 7-day window, each that day's mean
\* price, oldest day first.
C8_TrendOnePerWindowDay ==
    response.op = "products" =>
        \A i \in DOMAIN response.body.products :
            LET e == response.body.products[i]
            IN  TrendIs(e.id, e.price_trend, WindowDays(e.id))

\* C8 as amended: the trend has at most 7 entries, one per each of the 7
\* most recent calendar days with an observation inside the trailing 7-day
\* window (which can touch 8 calendar days), each the mean of that day's
\* observations inside the window, oldest day first.
C8_TrendMostRecentDays ==
    response.op = "products" =>
        \A i \in DOMAIN response.body.products :
            LET e == response.body.products[i]
            IN  TrendIs(e.id, e.price_trend, MostRecent(WindowDays(e.id), TrendLimit))

C8_Witness ==
    /\ response.op = "products"
    /\ \E i \in DOMAIN response.body.products :
          LET e == response.body.products[i]
          IN  /\ Cardinality(WindowDays(e.id)) > TrendLimit
              /\ Len(e.price_trend) = TrendLimit
              /\ e.price_trend[1].day < e.price_trend[TrendLimit].day

====
